---- MODULE Spec2Model ----
(***************************************************************************)
(* Model of agent-tools/scripts/twitter-api.py: the OAuth 1.0a request     *)
(* signer (oauth_sign) and the command dispatcher (one signed HTTPS call   *)
(* per invocation, then the rendering of the response).                    *)
(*                                                                         *)
(* Strings that the signer encodes, sorts or concatenates are sequences of *)
(* code points, so that percent-encoding and Python's string order are     *)
(* computed as the code computes them.  HMAC-SHA1 is a collision-free      *)
(* symbolic digest: the pair of its key and its message.                   *)
(***************************************************************************)
EXTENDS Integers, Sequences, FiniteSets, TLC

VARIABLES
    argv,       \* sys.argv: <<program, command, arguments...>>
    pc,         \* "main" | "wait" (request sent, response awaited) | "exit" | "off"
    requests,   \* the HTTP requests issued so far, in order
    ts,         \* what int(time.time()) returned to oauth_sign
    nonce,      \* what secrets.token_hex(16) returned to oauth_sign
    response,   \* the HTTP response: status, whether the body parses, its JSON value
    out,        \* the lines printed to stdout
    exc,        \* the unhandled exception that ended the process, or "none"
    sign_req,   \* signer harness: the (method, url, extra_params) being signed
    sign_log    \* signer harness: the calls of oauth_sign made on sign_req

vars ==
    <<argv, pc, requests, ts, nonce, response, out, exc, sign_req, sign_log>>

(***************************************************************************)
(* Bounds.                                                                 *)
(***************************************************************************)
\* The clock returns a value in 0..MaxClock.
MaxClock ==
    1
\* The signer harness calls oauth_sign at most MaxCalls times per request.
MaxCalls ==
    2

(***************************************************************************)
(* Strings as sequences of code points.                                    *)
(***************************************************************************)
\* The printable ASCII characters, code points 32..126 (the grave accent,
\* which a TLA+ string cannot hold, is spelled out).
Printable ==
    <<" ", "!", "\"", "#", "$", "%", "&", "'", "(", ")", "*", "+", ",",
       "-", ".", "/", "0", "1", "2", "3", "4", "5", "6", "7", "8", "9",
       ":", ";", "<", "=", ">", "?", "@", "A", "B", "C", "D", "E", "F",
       "G", "H", "I", "J", "K", "L", "M", "N", "O", "P", "Q", "R", "S",
       "T", "U", "V", "W", "X", "Y", "Z", "[", "\\", "]", "^", "_", "(grave)",
       "a", "b", "c", "d", "e", "f", "g", "h", "i", "j", "k", "l", "m",
       "n", "o", "p", "q", "r", "s", "t", "u", "v", "w", "x", "y", "z",
       "{", "|", "}", "~">>

Ord(c) ==
    31 + (CHOOSE i \in 1..Len(Printable) : Printable[i] = c)

Str(t) ==
    [i \in 1..Len(t) |-> Ord(t[i])]

\* Python's str < str: lexicographic by code point, a proper prefix first.
StrLess(a, b) ==
    \E i \in 1..Len(b) :
        /\ \A j \in 1..(i - 1) : j <= Len(a) /\ a[j] = b[j]
        /\ \/ i = Len(a) + 1
           \/ i <= Len(a) /\ a[i] < b[i]

\* a in b for Python strings: a is a substring of b.
Contains(b, a) ==
    \E i \in 0..(Len(b) - Len(a)) : SubSeq(b, i + 1, i + Len(a)) = a

RECURSIVE Digits(_)
Digits(n) ==
    IF n < 10 THEN <<48 + n>> ELSE Digits(n \div 10) \o <<48 + (n % 10)>>

\* str(int(...)) of a non-negative integer.
IntToStr(n) ==
    Digits(n)

(***************************************************************************)
(* Credentials (lines 18-21).                                               *)
(***************************************************************************)
AK ==
    Str(
      <<"q", "x", "7", "U", "e", "v", "J", "9", "I", "k", "8", "V", "c",
         "G", "T", "U", "9", "w", "H", "l", "g", "y", "n", "n", "a">>)

AKS ==
    Str(
      <<"S", "r", "6", "p", "o", "x", "Y", "J", "E", "S", "o", "Y", "c",
         "t", "n", "d", "E", "u", "f", "j", "j", "t", "j", "X", "g", "X",
         "U", "G", "z", "1", "u", "r", "i", "n", "A", "8", "K", "8", "A",
         "D", "w", "0", "y", "L", "t", "c", "o", "D", "t", "6">>)

AT ==
    Str(
      <<"2", "0", "1", "3", "7", "0", "0", "8", "3", "5", "6", "5", "4",
         "6", "7", "2", "3", "8", "8", "-", "H", "U", "n", "M", "l", "I",
         "B", "k", "v", "1", "K", "i", "S", "K", "S", "S", "j", "F", "U",
         "3", "m", "6", "8", "g", "f", "f", "R", "H", "l", "1">>)

ATS ==
    Str(
      <<"p", "Y", "B", "A", "U", "z", "V", "j", "P", "4", "w", "W", "e",
         "s", "a", "y", "m", "D", "q", "4", "E", "Q", "3", "d", "d", "l",
         "c", "H", "q", "q", "7", "L", "R", "G", "o", "X", "T", "e", "Z",
         "H", "J", "O", "J", "V", "P">>)

(***************************************************************************)
(* String literals of the source.                                          *)
(***************************************************************************)
K_consumer_key ==
    Str(
      <<"o", "a", "u", "t", "h", "_", "c", "o", "n", "s", "u", "m", "e",
         "r", "_", "k", "e", "y">>)

K_nonce ==
    Str(<<"o", "a", "u", "t", "h", "_", "n", "o", "n", "c", "e">>)

K_signature_method ==
    Str(
      <<"o", "a", "u", "t", "h", "_", "s", "i", "g", "n", "a", "t", "u",
         "r", "e", "_", "m", "e", "t", "h", "o", "d">>)

K_timestamp ==
    Str(
      <<"o", "a", "u", "t", "h", "_", "t", "i", "m", "e", "s", "t", "a",
         "m", "p">>)

K_token ==
    Str(<<"o", "a", "u", "t", "h", "_", "t", "o", "k", "e", "n">>)

K_version ==
    Str(<<"o", "a", "u", "t", "h", "_", "v", "e", "r", "s", "i", "o", "n">>)

K_signature ==
    Str(
      <<"o", "a", "u", "t", "h", "_", "s", "i", "g", "n", "a", "t", "u",
         "r", "e">>)

K_description ==
    Str(<<"d", "e", "s", "c", "r", "i", "p", "t", "i", "o", "n">>)

V_hmac_sha1 ==
    Str(<<"H", "M", "A", "C", "-", "S", "H", "A", "1">>)

V_version ==
    Str(<<"1", ".", "0">>)

POST ==
    Str(<<"P", "O", "S", "T">>)

DELETE ==
    Str(<<"D", "E", "L", "E", "T", "E">>)

HTTPS ==
    Str(<<"h", "t", "t", "p", "s", ":", "/", "/">>)

HOST ==
    Str(
      <<"a", "p", "i", ".", "t", "w", "i", "t", "t", "e", "r", ".", "c",
         "o", "m">>)

P_tweets ==
    Str(<<"/", "2", "/", "t", "w", "e", "e", "t", "s">>)

P_likes ==
    Str(
      <<"/", "2", "/", "u", "s", "e", "r", "s", "/", "2", "0", "1", "3",
         "7", "0", "0", "8", "3", "5", "6", "5", "4", "6", "7", "2", "3",
         "8", "8", "/", "l", "i", "k", "e", "s">>)

P_retweets ==
    Str(
      <<"/", "2", "/", "u", "s", "e", "r", "s", "/", "2", "0", "1", "3",
         "7", "0", "0", "8", "3", "5", "6", "5", "4", "6", "7", "2", "3",
         "8", "8", "/", "r", "e", "t", "w", "e", "e", "t", "s">>)

P_update_profile ==
    Str(
      <<"/", "1", ".", "1", "/", "a", "c", "c", "o", "u", "n", "t", "/",
         "u", "p", "d", "a", "t", "e", "_", "p", "r", "o", "f", "i", "l",
         "e", ".", "j", "s", "o", "n">>)

P_dm_conversations ==
    Str(
      <<"/", "2", "/", "d", "m", "_", "c", "o", "n", "v", "e", "r", "s",
         "a", "t", "i", "o", "n", "s">>)

P_messages ==
    Str(<<"/", "m", "e", "s", "s", "a", "g", "e", "s">>)

BIO_URL ==
    Str(
      <<"h", "t", "t", "p", "s", ":", "/", "/", "a", "p", "i", ".", "t",
         "w", "i", "t", "t", "e", "r", ".", "c", "o", "m", "/", "1", ".",
         "1", "/", "a", "c", "c", "o", "u", "n", "t", "/", "u", "p", "d",
         "a", "t", "e", "_", "p", "r", "o", "f", "i", "l", "e", ".", "j",
         "s", "o", "n">>)

HexDigits ==
    Str(
      <<"0", "1", "2", "3", "4", "5", "6", "7", "8", "9", "A", "B", "C",
         "D", "E", "F">>)

S_data ==
    Str(<<"d", "a", "t", "a">>)

S_unknown ==
    Str(<<"u", "n", "k", "n", "o", "w", "n">>)

(***************************************************************************)
(* urllib.parse.quote(s, safe='').                                         *)
(***************************************************************************)
\* The characters quote never encodes: letters, digits and "_.-~".
Unreserved(c) ==
    \/ c \in 48..57
    \/ c \in 65..90
    \/ c \in 97..122
    \/ c \in {95, 46, 45, 126}

\* The UTF-8 bytes of a code point below 65536.
Utf8(c) ==
    IF c < 128 THEN <<c>>
    ELSE IF c < 2048 THEN <<192 + (c \div 64), 128 + (c % 64)>>
    ELSE <<224 + (c \div 4096), 128 + ((c \div 64) % 64), 128 + (c % 64)>>

PctByte(b) ==
    <<37, HexDigits[(b \div 16) + 1], HexDigits[(b % 16) + 1]>>

RECURSIVE PctBytes(_)
PctBytes(bs) ==
    IF bs = <<>> THEN <<>> ELSE PctByte(Head(bs)) \o PctBytes(Tail(bs))

\* The concatenation of parts[lo..hi], by halves (the recursion stays shallow
\* on long strings).
RECURSIVE Flat(_, _, _)
Flat(parts, lo, hi) ==
    IF lo > hi THEN <<>>
    ELSE IF lo = hi THEN parts[lo]
    ELSE LET mid == (lo + hi) \div 2
         IN  Flat(parts, lo, mid) \o Flat(parts, mid + 1, hi)

QuoteChar(c) ==
    IF Unreserved(c) THEN <<c>> ELSE PctBytes(Utf8(c))

quote(s) ==
    Flat([i \in 1..Len(s) |-> QuoteChar(s[i])], 1, Len(s))

(***************************************************************************)
(* Python dicts: insertion-ordered sequences of <<key, value>> pairs with  *)
(* distinct keys.                                                          *)
(***************************************************************************)
Keys(d) ==
    {d[i][1] : i \in 1..Len(d)}

Get(d, k) ==
    d[CHOOSE i \in 1..Len(d) : d[i][1] = k][2]

\* {**a, **b}: a's keys keep their place and take b's value where b has the
\* key; b's other keys follow in b's order.
RECURSIVE NewItems(_, _)
NewItems(a, b) ==
    IF b = <<>> THEN <<>>
    ELSE (IF Head(b)[1] \in Keys(a) THEN <<>> ELSE <<Head(b)>>)
         \o NewItems(a, Tail(b))

DictMerge(a, b) ==
    [i \in 1..Len(a) |->
        IF a[i][1] \in Keys(b) THEN <<a[i][1], Get(b, a[i][1])>> ELSE a[i]]
    \o NewItems(a, b)

\* Python's tuple order on (key, value) pairs of strings.
ItemLess(x, y) ==
    IF x[1] # y[1] THEN StrLess(x[1], y[1]) ELSE StrLess(x[2], y[2])

RECURSIVE Insert(_, _)
Insert(x, s) ==
    IF s = <<>> THEN <<x>>
    ELSE IF ItemLess(x, Head(s)) THEN <<x>> \o s
    ELSE <<Head(s)>> \o Insert(x, Tail(s))

\* sorted(d.items())
RECURSIVE sorted(_)
sorted(items) ==
    IF items = <<>> THEN <<>> ELSE Insert(Head(items), sorted(Tail(items)))

\* sep.join(parts)
Join(sep, parts) ==
    Flat([i \in 1..Len(parts) |-> IF i = 1 THEN parts[i] ELSE sep \o parts[i]],
         1, Len(parts))

(***************************************************************************)
(* oauth_sign (lines 23-37), with the timestamp and the nonce it draws     *)
(* made parameters.                                                        *)
(***************************************************************************)
\* A plausible slip: the nonce and the timestamp stored under each other's key.
oauth_params_swapped(t, n) ==
    << <<K_consumer_key, AK>>, <<K_nonce, IntToStr(t)>>,
       <<K_signature_method, V_hmac_sha1>>, <<K_timestamp, n>>,
       <<K_token, AT>>, <<K_version, V_version>> >>

\* The oauth dict of lines 26-30.
oauth_params(t, n) ==
    << <<K_consumer_key, AK>>, <<K_nonce, n>>,
       <<K_signature_method, V_hmac_sha1>>, <<K_timestamp, IntToStr(t)>>,
       <<K_token, AT>>, <<K_version, V_version>> >>

\* all_p of line 31: {**oauth, **(extra_params or {})}; None is <<>>.
all_params(t, n, extra_params) ==
    DictMerge(oauth_params(t, n), extra_params)

EncodePair(kv) ==
    quote(kv[1]) \o Str(<<"=">>) \o quote(kv[2])

\* ps of line 32: sort the raw items, then encode each and join with "&".
param_string(all_p) ==
    LET s == sorted(all_p)
    IN  Join(Str(<<"&">>), [i \in 1..Len(s) |-> EncodePair(s[i])])

\* bs of line 33.
base_string(method, url, ps) ==
    method \o Str(<<"&">>) \o quote(url) \o Str(<<"&">>) \o quote(ps)

\* sk of line 34.
signing_key ==
    quote(AKS) \o Str(<<"&">>) \o quote(ATS)

\* Line 35: base64(HMAC-SHA1(sk, bs)) as a collision-free symbolic digest.
hmac_sha1_b64(sk, bs) ==
    <<sk, bs>>

\* One field of the Authorization header: k="quote(v)".  The signature's
\* value is the symbolic digest, carried in mac.
HeaderField(k, v) ==
    [k |-> k, v |-> quote(v), mac |-> <<>>]

SignatureField(sig) ==
    [k |-> K_signature, v |-> <<>>, mac |-> sig]

\* The locals of oauth_sign and the header it returns (line 37): the fields
\* of oauth in insertion order, the signature last.
oauth_sign_locals(method, url, extra_params, t, n) ==
    LET oauth == oauth_params(t, n)
        ps    == param_string(all_params(t, n, extra_params))
        bs    == base_string(method, url, ps)
        sig   == hmac_sha1_b64(signing_key, bs)
    IN  [ps     |-> ps,
         bs     |-> bs,
         header |-> [i \in 1..Len(oauth) |-> HeaderField(oauth[i][1], oauth[i][2])]
                    \o <<SignatureField(sig)>>]

oauth_sign(method, url, extra_params, t, n) ==
    oauth_sign_locals(method, url, extra_params, t, n).header

\* What time.time() and secrets.token_hex(16) can return.
Clock ==
    0..MaxClock

Nonces ==
    {Str(<<"0", "a", "f", "3">>), Str(<<"9", "c", "1", "e">>)}

(***************************************************************************)
(* JSON values, as json.loads returns them and as the request bodies hold  *)
(* them: a type tag t with the boolean b, the number n, the string s or    *)
(* the members m (<<name, value>> pairs; an array's names are its          *)
(* indices).                                                               *)
(***************************************************************************)
JNull ==
    [t |-> "null", b |-> FALSE, n |-> 0, s |-> <<>>, m |-> {}]

JBool(b) ==
    [t |-> "bool", b |-> b, n |-> 0, s |-> <<>>, m |-> {}]

JNum(n) ==
    [t |-> "num", b |-> FALSE, n |-> n, s |-> <<>>, m |-> {}]

JStr(s) ==
    [t |-> "str", b |-> FALSE, n |-> 0, s |-> s, m |-> {}]

JArr(m) ==
    [t |-> "arr", b |-> FALSE, n |-> 0, s |-> <<>>, m |-> m]

JObj(m) ==
    [t |-> "obj", b |-> FALSE, n |-> 0, s |-> <<>>, m |-> m]

Has(v, name) ==
    v.t = "obj" /\ \E p \in v.m : p[1] = name

Item(v, name) ==
    (CHOOSE p \in v.m : p[1] = name)[2]

\* bool(v) in Python.
Truthy(v) ==
    CASE v.t = "null" -> FALSE
      [] v.t = "bool" -> v.b
      [] v.t = "num"  -> v.n # 0
      [] v.t = "str"  -> v.s # <<>>
      [] OTHER        -> v.m # {}

\* The outcome of a Python expression: a value, or the exception it raises.
Val(v) ==
    [exc |-> "none", val |-> v]

Raise(e) ==
    [exc |-> e, val |-> JNull]

\* "data" in v: a key of a dict, an element of a list, a substring of a
\* str; TypeError on None, a bool or a number.
InData(v) ==
    CASE v.t = "obj" -> Val(JBool(Has(v, "data")))
      [] v.t = "arr" -> Val(JBool(\E p \in v.m : p[2] = JStr(S_data)))
      [] v.t = "str" -> Val(JBool(Contains(v.s, S_data)))
      [] OTHER       -> Raise("TypeError")

\* v[name] with a str name: KeyError on a dict without it, TypeError on
\* anything that is not a dict.
Subscript(v, name) ==
    IF v.t # "obj" THEN Raise("TypeError")
    ELSE IF Has(v, name) THEN Val(Item(v, name))
    ELSE Raise("KeyError")

\* v.get(name, default): AttributeError on anything that is not a dict.
DictGet(v, name, default) ==
    IF v.t # "obj" THEN Raise("AttributeError")
    ELSE IF Has(v, name) THEN Val(Item(v, name))
    ELSE Val(default)

(***************************************************************************)
(* The command line.                                                       *)
(***************************************************************************)
PROG ==
    Str(
      <<"t", "w", "i", "t", "t", "e", "r", "-", "a", "p", "i", ".", "p",
         "y">>)

CMD_tweet ==
    Str(<<"t", "w", "e", "e", "t">>)

CMD_reply ==
    Str(<<"r", "e", "p", "l", "y">>)

CMD_like ==
    Str(<<"l", "i", "k", "e">>)

CMD_retweet ==
    Str(<<"r", "e", "t", "w", "e", "e", "t">>)

CMD_delete ==
    Str(<<"d", "e", "l", "e", "t", "e">>)

CMD_bio ==
    Str(<<"b", "i", "o">>)

CMD_dm ==
    Str(<<"d", "m">>)

CMD_dm_conv ==
    Str(<<"d", "m", "-", "c", "o", "n", "v">>)

CMD_other ==
    Str(<<"h", "e", "l", "p">>)

Commands ==
    {CMD_tweet, CMD_reply, CMD_like, CMD_retweet, CMD_delete, CMD_bio,
     CMD_dm, CMD_dm_conv}

\* The arguments a command reads (sys.argv[2], sys.argv[3]).
Arity(cmd) ==
    IF cmd \in {CMD_reply, CMD_dm, CMD_dm_conv} THEN 2 ELSE 1

\* Argument values: the empty string, a plain id, and a text with a space
\* in it.
Texts ==
    {<<>>, Str(<<"1", "2", "3">>), Str(<<"a", " ", "1">>)}

\* sys.argv: the program name, then nothing, or a command word with up to
\* two arguments.
ArgVectors ==
    {<<PROG>>}
    \cup {<<PROG, c>> : c \in Commands \cup {CMD_other}}
    \cup {<<PROG, c, a>> : c \in Commands \cup {CMD_other}, a \in Texts}
    \cup {<<PROG, c, a, b>> : c \in Commands \cup {CMD_other},
                              a \in Texts, b \in Texts}

\* len(sys.argv) > i and the element there, sys.argv being 0-based.
HasArg(i) ==
    Len(argv) > i

Arg(i) ==
    argv[i + 1]

(***************************************************************************)
(* Responses of the server.                                                *)
(***************************************************************************)
Statuses ==
    {200, 201, 403}

Field(name, v) ==
    JObj({<<name, v>>})

\* The JSON values a response body may parse to.
Bodies ==
    {Field("data", Field("id", JStr(Str(<<"1", "2", "3">>)))),
     Field("data", Field("dm_conversation_id", JStr(Str(<<"c", "7">>)))),
     Field("data", Field("liked", JBool(TRUE))),
     Field("data", Field("liked", JBool(FALSE))),
     Field("data", Field("retweeted", JBool(TRUE))),
     Field("data", Field("retweeted", JBool(FALSE))),
     Field("data", Field("deleted", JBool(TRUE))),
     Field("data", Field("deleted", JBool(FALSE))),
     Field("data", JObj({})),
     Field("data", JNull),
     Field("description", JStr(Str(<<"a", " ", "1">>))),
     Field("title", JStr(Str(<<"F", "o", "r", "b", "i", "d", "d", "e", "n">>))),
     JObj({}),
     JNull,
     JArr({<<"0", JStr(S_data)>>}),
     JStr(S_data)}

\* parsed is whether json.loads accepts the body; data is its value then.
Responses ==
    [status : Statuses, parsed : {TRUE}, data : Bodies]
    \cup [status : Statuses, parsed : {FALSE}, data : {JNull}]

NoResponse ==
    [status |-> 0, parsed |-> FALSE, data |-> JNull]

(***************************************************************************)
(* Requests and printed lines.                                             *)
(***************************************************************************)
NoBody ==
    [kind |-> "none", json |-> JNull, form |-> <<>>]

JsonBody(v) ==
    [kind |-> "json", json |-> v, form |-> <<>>]

FormBody(s) ==
    [kind |-> "form", json |-> JNull, form |-> s]

\* A printed line: mark is "ok" for a line that starts with the check mark,
\* "fail" for one that starts with the cross, "plain" otherwise; what names
\* the message; arg, status and payload are what the message interpolates
\* (payload: <<>> or <<the JSON value>>).
Line(mark, what, arg, status, payload) ==
    [mark |-> mark, what |-> what, arg |-> arg, status |-> status,
     payload |-> payload]

\* A plausible slip: the signed URL leaves out the path.
api_call_signs_host(method, path, body, form_params, t, n) ==
    [method        |-> method,
     host          |-> HOST,
     path          |-> path,
     authorization |-> oauth_sign(method, HTTPS \o HOST, form_params, t, n),
     content_type  |-> "application/json",
     body          |-> IF Truthy(body) THEN JsonBody(body) ELSE NoBody]

\* api_call up to conn.request (lines 40-44), with the default content type
\* and host, which every caller uses: the request it sends.  body is a JSON
\* value, JNull for None; form_params is a dict, <<>> for None.
api_call(method, path, body, form_params, t, n) ==
    [method        |-> method,
     host          |-> HOST,
     path          |-> path,
     authorization |-> oauth_sign(method, HTTPS \o HOST \o path, form_params, t, n),
     content_type  |-> "application/json",
     body          |-> IF Truthy(body) THEN JsonBody(body) ELSE NoBody]

\* A plausible slip: the description is sent but not signed.
bio_request_unsigned_form(text, t, n) ==
    [method        |-> POST,
     host          |-> HOST,
     path          |-> P_update_profile,
     authorization |-> oauth_sign(POST, BIO_URL, <<>>, t, n),
     content_type  |-> "application/x-www-form-urlencoded",
     body          |-> FormBody(quote(K_description) \o Str(<<"=">>) \o quote(text))]

\* bio up to conn.request (lines 73-78): urlencode with quote_via=quote
\* encodes the value with quote(v, safe='').
bio_request(text, t, n) ==
    [method        |-> POST,
     host          |-> HOST,
     path          |-> P_update_profile,
     authorization |-> oauth_sign(POST, BIO_URL, << <<K_description, text>> >>, t, n),
     content_type  |-> "application/x-www-form-urlencoded",
     body          |-> FormBody(quote(K_description) \o Str(<<"=">>) \o quote(text))]

\* The body tweet builds (lines 50-52): the reply reference is added when
\* reply_to is truthy; None and "" are not.
tweet_body(text, reply_to) ==
    IF reply_to # <<>>
    THEN JObj({<<"text", JStr(text)>>,
               <<"reply", Field("in_reply_to_tweet_id", JStr(reply_to))>>})
    ELSE Field("text", JStr(text))

NoSignReq ==
    [method |-> <<>>, url |-> <<>>, extra_params |-> <<>>]

Init ==
    /\ argv \in ArgVectors
    /\ pc = "main"
    /\ requests = <<>>
    /\ ts = 0
    /\ nonce = <<>>
    /\ response = NoResponse
    /\ out = <<>>
    /\ exc = "none"
    /\ sign_req = NoSignReq
    /\ sign_log = <<>>

\* The process ends: normally, or by the unhandled exception e.
Exit(lines, e) ==
    /\ pc' = "exit"
    /\ out' = out \o lines
    /\ exc' = e

\* sys.argv[i] is read past the end of the list.
IndexError ==
    /\ Exit(<<>>, "IndexError")
    /\ UNCHANGED <<argv, requests, ts, nonce, response, sign_req, sign_log>>

\* conn.request(...): oauth_sign has read the clock and the nonce source,
\* the request goes out, and the process waits in conn.getresponse().
Send(req, t, n) ==
    /\ requests' = Append(requests, req)
    /\ ts' = t
    /\ nonce' = n
    /\ pc' = "wait"
    /\ UNCHANGED <<argv, response, out, exc, sign_req, sign_log>>

Dispatch(cmd) ==
    pc = "main" /\ HasArg(1) /\ Arg(1) = cmd

(***************************************************************************)
(* __main__ (lines 110-134) and each command up to its request.            *)
(***************************************************************************)
\* Lines 111-113: no command word.
usage ==
    /\ pc = "main"
    /\ ~HasArg(1)
    /\ Exit(<<Line("plain", "usage", <<>>, 0, <<>>)>>, "SystemExit")
    /\ UNCHANGED <<argv, requests, ts, nonce, response, sign_req, sign_log>>

\* Lines 132-134.
unknown_command ==
    /\ pc = "main"
    /\ HasArg(1)
    /\ Arg(1) \notin Commands
    /\ Exit(<<Line("plain", "unknown", Arg(1), 0, <<>>),
              Line("plain", "usage", <<>>, 0, <<>>)>>, "none")
    /\ UNCHANGED <<argv, requests, ts, nonce, response, sign_req, sign_log>>

\* Line 117, then tweet (lines 50-53).
main_tweet ==
    /\ Dispatch(CMD_tweet)
    /\ IF ~HasArg(2) THEN IndexError
       ELSE \E t \in Clock, n \in Nonces :
               Send(api_call(POST, P_tweets,
                             tweet_body(Arg(2), <<>>), <<>>, t, n), t, n)

\* Line 119, then tweet (lines 50-53).
main_reply ==
    /\ Dispatch(CMD_reply)
    /\ IF ~HasArg(3) THEN IndexError
       ELSE \E t \in Clock, n \in Nonces :
               Send(api_call(POST, P_tweets,
                             tweet_body(Arg(3), Arg(2)), <<>>, t, n), t, n)

\* Line 121, then like (line 61).
main_like ==
    /\ Dispatch(CMD_like)
    /\ IF ~HasArg(2) THEN IndexError
       ELSE \E t \in Clock, n \in Nonces :
               Send(api_call(POST, P_likes,
                             Field("tweet_id", JStr(Arg(2))), <<>>, t, n),
                    t, n)

\* Line 123, then retweet (line 65).
main_retweet ==
    /\ Dispatch(CMD_retweet)
    /\ IF ~HasArg(2) THEN IndexError
       ELSE \E t \in Clock, n \in Nonces :
               Send(api_call(POST, P_retweets,
                             Field("tweet_id", JStr(Arg(2))), <<>>, t, n),
                    t, n)

\* Line 125, then delete (line 69).
main_delete ==
    /\ Dispatch(CMD_delete)
    /\ IF ~HasArg(2) THEN IndexError
       ELSE \E t \in Clock, n \in Nonces :
               Send(api_call(DELETE, P_tweets \o Str(<<"/">>) \o Arg(2),
                             JNull, <<>>, t, n), t, n)

\* Line 127, then bio (lines 73-78).
main_bio ==
    /\ Dispatch(CMD_bio)
    /\ IF ~HasArg(2) THEN IndexError
       ELSE \E t \in Clock, n \in Nonces : Send(bio_request(Arg(2), t, n), t, n)

\* Line 129, then dm (lines 86-90).
main_dm ==
    /\ Dispatch(CMD_dm)
    /\ IF ~HasArg(3) THEN IndexError
       ELSE \E t \in Clock, n \in Nonces :
               Send(api_call(POST, P_dm_conversations,
                             JObj({<<"text", JStr(Arg(3))>>,
                                   <<"participant_ids",
                                     JArr({<<"0", JStr(Arg(2))>>})>>}),
                             <<>>, t, n), t, n)

\* Line 131, then dm_to_conversation (lines 103-104).
main_dm_conv ==
    /\ Dispatch(CMD_dm_conv)
    /\ IF ~HasArg(3) THEN IndexError
       ELSE \E t \in Clock, n \in Nonces :
               Send(api_call(POST,
                             P_dm_conversations \o Str(<<"/">>) \o Arg(2) \o P_messages,
                             Field("text", JStr(Arg(3))), <<>>, t, n),
                    t, n)

(***************************************************************************)
(* Each command from the response on: what it prints, and the exception    *)
(* that ends it, if any.                                                   *)
(***************************************************************************)
Printed(lines) ==
    [lines |-> lines, exc |-> "none"]

Failed(lines, e) ==
    [lines |-> lines, exc |-> e]

\* The cross-marked line with the parsed response: f"(cross) {data}".
FailLine(data) ==
    Line("fail", "response", <<>>, 0, <<data>>)

\* tweet, lines 54-58.
tweet_render(data) ==
    LET has == InData(data)
    IN  IF has.exc # "none" THEN Failed(<<>>, has.exc)
        ELSE IF has.val.b
        THEN LET d == Subscript(data, "data")
             IN  IF d.exc # "none" THEN Failed(<<>>, d.exc)
                 ELSE LET tid == Subscript(d.val, "id")
                      IN  IF tid.exc # "none" THEN Failed(<<>>, tid.exc)
                          ELSE Printed(<<Line("ok", "status_url", <<>>, 0,
                                              <<tid.val>>)>>)
        ELSE Printed(<<FailLine(data)>>)

\* like, retweet and delete, lines 62, 66 and 70:
\* data.get("data", {}).get(field), then its truth value.
action_render(data, field, done) ==
    LET d == DictGet(data, "data", JObj({}))
    IN  IF d.exc # "none" THEN Failed(<<>>, d.exc)
        ELSE LET f == DictGet(d.val, field, JNull)
             IN  IF f.exc # "none" THEN Failed(<<>>, f.exc)
                 ELSE IF Truthy(f.val)
                 THEN Printed(<<Line("ok", done, <<>>, 0, <<>>)>>)
                 ELSE Printed(<<FailLine(data)>>)

\* bio, line 81: the check-marked line with data.get("description", data).
bio_render(data) ==
    LET d == DictGet(data, "description", data)
    IN  IF d.exc # "none" THEN Failed(<<>>, d.exc)
        ELSE Printed(<<Line("ok", "bio", <<>>, 0, <<d.val>>)>>)

\* dm, lines 93-94, after the "sent" line is out.
dm_conversation(sent, data) ==
    LET has == InData(data)
    IN  IF has.exc # "none" THEN Failed(sent, has.exc)
        ELSE IF has.val.b
        THEN LET d == Subscript(data, "data")
             IN  IF d.exc # "none" THEN Failed(sent, d.exc)
                 ELSE LET c == DictGet(d.val, "dm_conversation_id",
                                       JStr(S_unknown))
                      IN  IF c.exc # "none" THEN Failed(sent, c.exc)
                          ELSE Printed(sent \o <<Line("plain", "conversation",
                                                      <<>>, 0, <<c.val>>)>>)
        ELSE Printed(sent)

\* status == 201 or "data" in data (lines 91 and 105): the membership test
\* runs only when the status is not 201.
dm_success(status, data) ==
    IF status = 201 THEN Val(JBool(TRUE)) ELSE InData(data)

\* A plausible slip: the 403 branch is tested after the generic one's
\* condition, so it is never taken.
dm_render_no_403(recipient_id, status, data) ==
    LET ok == dm_success(status, data)
    IN  IF ok.exc # "none" THEN Failed(<<>>, ok.exc)
        ELSE IF ok.val.b
        THEN dm_conversation(<<Line("ok", "dm_sent", recipient_id, 0, <<>>)>>, data)
        ELSE Printed(<<Line("fail", "dm_failed", <<>>, status, <<data>>)>>)

\* dm, lines 91-99.
dm_render(recipient_id, status, data) ==
    LET ok == dm_success(status, data)
    IN  IF ok.exc # "none" THEN Failed(<<>>, ok.exc)
        ELSE IF ok.val.b
        THEN dm_conversation(<<Line("ok", "dm_sent", recipient_id, 0, <<>>)>>, data)
        ELSE IF status = 403
        THEN Printed(<<Line("fail", "dm_no_permission", <<>>, 403, <<>>),
                       Line("plain", "details", <<>>, 0, <<data>>)>>)
        ELSE Printed(<<Line("fail", "dm_failed", <<>>, status, <<data>>)>>)

\* dm_to_conversation, lines 105-108.
dm_conv_render(conversation_id, status, data) ==
    LET ok == dm_success(status, data)
    IN  IF ok.exc # "none" THEN Failed(<<>>, ok.exc)
        ELSE IF ok.val.b
        THEN Printed(<<Line("ok", "dm_conv_sent", conversation_id, 0, <<>>)>>)
        ELSE Printed(<<Line("fail", "dm_failed", <<>>, status, <<data>>)>>)

\* conn.getresponse() returns and json.loads runs (lines 45-46 and 79-80):
\* a body that does not parse raises JSONDecodeError, which nothing catches.
Waiting(cmds) ==
    pc = "wait" /\ Arg(1) \in cmds

Receive(r, rendered) ==
    /\ response' = r
    /\ IF r.parsed THEN Exit(rendered.lines, rendered.exc)
       ELSE Exit(<<>>, "JSONDecodeError")
    /\ UNCHANGED <<argv, requests, ts, nonce, sign_req, sign_log>>

tweet_return ==
    /\ Waiting({CMD_tweet, CMD_reply})
    /\ \E r \in Responses : Receive(r, tweet_render(r.data))

like_return ==
    /\ Waiting({CMD_like})
    /\ \E r \in Responses : Receive(r, action_render(r.data, "liked", "liked"))

retweet_return ==
    /\ Waiting({CMD_retweet})
    /\ \E r \in Responses :
        Receive(r, action_render(r.data, "retweeted", "retweeted"))

delete_return ==
    /\ Waiting({CMD_delete})
    /\ \E r \in Responses : Receive(r, action_render(r.data, "deleted", "deleted"))

bio_return ==
    /\ Waiting({CMD_bio})
    /\ \E r \in Responses : Receive(r, bio_render(r.data))

dm_return ==
    /\ Waiting({CMD_dm})
    /\ \E r \in Responses : Receive(r, dm_render(Arg(2), r.status, r.data))

dm_conv_return ==
    /\ Waiting({CMD_dm_conv})
    /\ \E r \in Responses : Receive(r, dm_conv_render(Arg(2), r.status, r.data))

Next ==
    \/ usage
    \/ unknown_command
    \/ main_tweet
    \/ main_reply
    \/ main_like
    \/ main_retweet
    \/ main_delete
    \/ main_bio
    \/ main_dm
    \/ main_dm_conv
    \/ tweet_return
    \/ like_return
    \/ retweet_return
    \/ delete_return
    \/ bio_return
    \/ dm_return
    \/ dm_conv_return

Spec ==
    Init /\ [][Next]_vars

(***************************************************************************)
(* The signer on its own: oauth_sign applied to bounded inputs.            *)
(***************************************************************************)
\* Parameter names and values offered as extra_params: plain ones, and ones
\* with characters outside the unreserved set.
ExtraKeys ==
    {K_description, Str(<<"a", "1">>), Str(<<"a", ":">>), Str(<<"{">>)}

ExtraValues ==
    {Str(<<"x">>), Str(<<"a", " ", "b">>)}

\* The dicts of at most two entries over ExtraKeys and ExtraValues.
ExtraDicts ==
    {<<>>}
    \cup {<< <<k, v>> >> : k \in ExtraKeys, v \in ExtraValues}
    \cup {d \in {<< <<k1, v1>>, <<k2, v2>> >> :
                    k1 \in ExtraKeys, k2 \in ExtraKeys,
                    v1 \in ExtraValues, v2 \in ExtraValues} :
            d[1][1] # d[2][1]}

InitSign ==
    /\ sign_req \in [method : {POST, DELETE},
                     url : {HTTPS \o HOST \o P_tweets},
                     extra_params : ExtraDicts]
    /\ sign_log = <<>>
    /\ pc = "off"
    /\ argv = <<>>
    /\ requests = <<>>
    /\ ts = 0
    /\ nonce = <<>>
    /\ response = NoResponse
    /\ out = <<>>
    /\ exc = "none"

\* One call oauth_sign(method, url, extra_params): the clock and the nonce
\* source answer, and the call's locals and result are logged.
SignCall ==
    /\ pc = "off"
    /\ Len(sign_log) < MaxCalls
    /\ \E t \in Clock, n \in Nonces :
        sign_log' = Append(sign_log,
            [ts |-> t, nonce |-> n,
             ps |-> oauth_sign_locals(sign_req.method, sign_req.url,
                                      sign_req.extra_params, t, n).ps,
             header |-> oauth_sign(sign_req.method, sign_req.url,
                                   sign_req.extra_params, t, n)])
    /\ UNCHANGED <<argv, pc, requests, ts, nonce, response, out, exc, sign_req>>

NextSign ==
    SignCall

SpecSign ==
    InitSign /\ [][NextSign]_vars

(***************************************************************************)
(* Properties.                                                             *)
(***************************************************************************)
\* The command word is one of the eight and all its arguments are there.
ArgsPresent ==
    /\ HasArg(1)
    /\ Arg(1) \in Commands
    /\ HasArg(1 + Arity(Arg(1)))

\* The process has ended after a response whose body parsed as JSON.
Rendered(cmds) ==
    /\ pc = "exit"
    /\ ArgsPresent
    /\ Arg(1) \in cmds
    /\ response.parsed

\* The same, the body being a JSON object, as the API's responses are.
RenderedObject(cmds) ==
    Rendered(cmds) /\ response.data.t = "obj"

Url(r) ==
    HTTPS \o r.host \o r.path

\* The symbolic signature of a request: <<signing key, base string>>.
SignatureOf(r) ==
    r.authorization[Len(r.authorization)].mac

SignedParamsAreFormFields ==
    \A i \in 1..Len(requests) :
        LET r    == requests[i]
            form == IF r.body.kind = "form"
                    THEN << <<K_description, Arg(2)>> >> ELSE <<>>
        IN  /\ r.body.kind = "form" <=> Arg(1) = CMD_bio
            /\ r.body.kind = "form" =>
                   r.body.form = K_description \o Str(<<"=">>) \o quote(Arg(2))
            /\ SignatureOf(r)[2]
                   = base_string(r.method, Url(r),
                                 param_string(oauth_params(ts, nonce) \o form))

\* C2's case: bio has sent a description that needs percent-encoding.
BioSentEncodedText ==
    /\ Len(requests) = 1
    /\ Arg(1) = CMD_bio
    /\ Arg(2) = Str(<<"a", " ", "1">>)
    /\ requests[1].body.kind = "form"

\* The lines of the permission-denied outcome of dm, and of no other.
PermissionDeniedOnly ==
    /\ out # <<>>
    /\ out[1].what = "dm_no_permission"
    /\ \A i \in 1..Len(out) : out[i].mark # "ok" /\ out[i].what # "dm_failed"

\* C3 as stated, on JSON objects: dm on HTTP 403 prints the
\* permission-denied message for any parsed body, never the success line or
\* the generic failure.
Dm403AlwaysPermissionDenied ==
    RenderedObject({CMD_dm}) /\ response.status = 403 => PermissionDeniedOnly

\* C3, amended: dm on HTTP 403 prints the permission-denied message, and
\* neither the success line nor the generic failure, when the parsed body is
\* a JSON object without a top-level "data" member.
Dm403WithoutDataPermissionDenied ==
    /\ Rendered({CMD_dm})
    /\ response.status = 403
    /\ response.data.t = "obj"
    /\ ~Has(response.data, "data")
    => /\ PermissionDeniedOnly
       /\ exc = "none"

\* C3's case: dm has ended on a 403 whose body is an error object.
Dm403ErrorObject ==
    /\ Rendered({CMD_dm})
    /\ response.status = 403
    /\ Has(response.data, "title")
    /\ out # <<>>
    /\ out[1].what = "dm_no_permission"

\* data.<field> is the JSON value true.
FieldIsTrue(data, field) ==
    /\ Has(data, "data")
    /\ Has(Item(data, "data"), field)
    /\ Item(Item(data, "data"), field) = JBool(TRUE)

ActionOutcome(cmd, field, done) ==
    RenderedObject({cmd}) =>
        IF FieldIsTrue(response.data, field)
        THEN out = <<Line("ok", done, <<>>, 0, <<>>)>>
        ELSE out = <<FailLine(response.data)>>

\* C4, on JSON objects: like, retweet and delete print their success line exactly when the
\* response's action-state field is true, and otherwise (false, missing,
\* data missing or null) a failure line with the payload, whatever the
\* status.
ActionSuccessIffFieldTrue ==
    /\ ActionOutcome(CMD_like, "liked", "liked")
    /\ ActionOutcome(CMD_retweet, "retweeted", "retweeted")
    /\ ActionOutcome(CMD_delete, "deleted", "deleted")

\* C5, on JSON objects: tweet prints a success line with data.id when the response has one,
\* and otherwise a failure line with the payload; it never ends by an
\* unhandled error.
TweetSuccessOrFailureLine ==
    RenderedObject({CMD_tweet}) =>
        /\ exc = "none"
        /\ IF Has(response.data, "data") /\ Has(Item(response.data, "data"), "id")
           THEN out = <<Line("ok", "status_url", <<>>, 0,
                             <<Item(Item(response.data, "data"), "id")>>)>>
           ELSE out = <<FailLine(response.data)>>

\* C6, on JSON objects: bio prints a success line only when the response has a description,
\* and a failure line with the payload for any response without one.
BioSuccessOnlyWithDescription ==
    RenderedObject({CMD_bio}) =>
        /\ (\E i \in 1..Len(out) : out[i].mark = "ok")
               => Has(response.data, "description")
        /\ ~Has(response.data, "description") => out = <<FailLine(response.data)>>

\* C7: when the response body is not JSON, the invocation ends by printing
\* a failure line, not by an unhandled parse error with nothing printed.
UnparseableBodyPrintsFailure ==
    pc = "exit" /\ Len(requests) = 1 /\ ~response.parsed =>
        /\ exc = "none"
        /\ \E i \in 1..Len(out) : out[i].mark = "fail"

\* C9: every reply request carries the text and a reply reference to the
\* given tweet id, the empty string included.
ReplyAlwaysCarriesReference ==
    HasArg(1) /\ Arg(1) = CMD_reply =>
        \A i \in 1..Len(requests) :
            /\ requests[i].body.kind = "json"
            /\ Has(requests[i].body.json, "text")
            /\ Item(requests[i].body.json, "text") = JStr(Arg(3))
            /\ Has(requests[i].body.json, "reply")
            /\ Item(requests[i].body.json, "reply")
                   = Field("in_reply_to_tweet_id", JStr(Arg(2)))

\* C8: with the timestamp pinned, two calls of oauth_sign on one request
\* return the same header for the same nonce, and for different nonces
\* headers with the same fields in the same order that differ in the
\* oauth_nonce and oauth_signature fields only.
NonceChangesOnlyNonceAndSignature ==
    \A i \in 1..Len(sign_log), j \in 1..Len(sign_log) :
        LET a == sign_log[i].header
            b == sign_log[j].header
        IN  sign_log[i].ts = sign_log[j].ts =>
                /\ sign_log[i].nonce = sign_log[j].nonce => a = b
                /\ Len(a) = Len(b)
                /\ \A f \in 1..Len(a) :
                    /\ a[f].k = b[f].k
                    /\ a[f].k \notin {K_nonce, K_signature} => a[f] = b[f]

\* C8's case: one request signed twice at the same second with two nonces.
SignedTwiceWithFreshNonce ==
    \E i \in 1..Len(sign_log), j \in 1..Len(sign_log) :
        /\ sign_log[i].ts = sign_log[j].ts
        /\ sign_log[i].nonce # sign_log[j].nonce
        /\ sign_log[i].header # sign_log[j].header

\* The normalized string of the specification: encode every key and value,
\* then sort by encoded key (ties by encoded value), then join.
encode_then_sort(all_p) ==
    LET enc == [i \in 1..Len(all_p) |-> <<quote(all_p[i][1]), quote(all_p[i][2])>>]
        s   == sorted(enc)
    IN  Join(Str(<<"&">>),
             [i \in 1..Len(s) |-> s[i][1] \o Str(<<"=">>) \o s[i][2]])

\* C10: the normalized parameter string lists the pairs in the order of
\* their percent-encoded keys, for every extra_params.
ParamStringInEncodedKeyOrder ==
    \A i \in 1..Len(sign_log) :
        sign_log[i].ps
            = encode_then_sort(all_params(sign_log[i].ts, sign_log[i].nonce,
                                          sign_req.extra_params))
====
